---------------------------- MODULE Spec2Model ----------------------------
(***************************************************************************)
(* A model of the Flask backend in src/app.py: the session/auth routes,    *)
(* the protected health, mental-health and fitness routes, and the SQLite  *)
(* tables they write.  Requests are served by worker threads (Flask's      *)
(* development server is threaded); a thread's steps are the database      *)
(* transactions of its handler, since SQLite makes each transaction        *)
(* atomic for the other connections.                                       *)
(***************************************************************************)
EXTENDS Integers, Sequences, FiniteSets, TLC

VARIABLES
    db,          \* the tables of health.db (committed rows only)
    now,         \* the UTC clock (datetime.utcnow / CURRENT_TIMESTAMP), in seconds
    ticks,       \* how many times the clock has advanced
    next_token,  \* the next value uuid.uuid4() returns (always fresh)
    cookies,     \* every session cookie a client has been handed (may be replayed)
    thr,         \* per worker thread: the request in progress and its locals
    open_conns,  \* sqlite3 connections opened and not yet closed
    writer,      \* the thread whose connection holds SQLite's write lock (0: none)
    nreq,        \* requests accepted so far
    logged_out,  \* the sessions whose logout request has returned
    schema_unique \* whether schema.sql declares users.username / email UNIQUE

vars == <<db, now, ticks, next_token, cookies, thr, open_conns, writer, nreq,
          logged_out, schema_unique>>

-----------------------------------------------------------------------------
(* Bounds of the model *)
NumThreads == 2
MaxRegisterRequests == 3
MaxAuthRequests == 2
MaxAppRequests == 1
MaxPredictRequests == 2
MaxLastRequests == 3
MaxQuizRequests == 2
MaxTicks == 1
MaxResponses == 2

(* Program constants *)
SessionHours == 24
SecondsPerHour == 3600

Threads == 1..NumThreads
Usernames == {"alice", "bob"}
Emails == {"a@x", "b@x"}
Passwords == {"pw1", "pw2"}
RegisterPasswords == {"pw1"}
Missing == ""

SessionTTL == SessionHours * SecondsPerHour

-----------------------------------------------------------------------------
(* Pure helpers *)

\* werkzeug generate_password_hash / check_password_hash
generate_password_hash(password) == <<"pbkdf2", password>>
check_password_hash(pwhash, password) == pwhash = generate_password_hash(password)

\* datetime.isoformat / datetime.fromisoformat
isoformat(t) == <<"iso", t>>
IsIso(s) == Len(s) = 2 /\ s[1] = "iso"
fromisoformat(s) == s[2]

\* cur.fetchone(): the first of the matching rows of a table, or NoRow
NoRow == [id |-> 0]
FirstRow(tbl, matching) ==
    IF matching = {} THEN NoRow
    ELSE tbl[CHOOSE i \in matching : \A j \in matching : i <= j]

\* expires_at = (datetime.utcnow() + timedelta(hours=24)).isoformat()
ExpiresAt(t0) == isoformat(t0 + SessionTTL)

NoSession == [user_id |-> 0, session_token |-> 0]

NoResp == [code |-> 0, error |-> "", data |-> 0]
Resp(code, error, data) == [code |-> code, error |-> error, data |-> data]

Idle == [pc |-> "idle", route |-> "", rid |-> 0, session |-> NoSession,
         username |-> "", email |-> "", password |-> "", n |-> 0,
         auth |-> "none", replay |-> FALSE, user_id |-> 0,
         conn |-> FALSE, pending |-> <<>>, outcome |-> "",
         health_input_id |-> 0, resp |-> NoResp, events |-> <<>>]

-----------------------------------------------------------------------------
(* Connections: get_db_connection ... finally: conn.close() *)

\* (variant: the connection is closed on the success path only)
execute_query_leak(n, failed) == IF failed THEN n + 1 ELSE n

\* execute_query: conn = get_db_connection(); try: ... finally: conn.close()
execute_query_conns(n, failed) == (n + 1) - 1

\* a handler's own connection: try: ... finally: conn.close()
handler_finally(n) == n - 1

\* json.dumps / json.loads
json_dumps(x) == <<"json", x>>
json_loads(s) == s[2]

\* A statement is <<table, row>>.  conn.commit() makes the executed
\* statements visible, in order
RECURSIVE ApplyPending(_, _)
ApplyPending(d, stmts) ==
    IF stmts = <<>> THEN d
    ELSE ApplyPending([d EXCEPT ![stmts[1][1]] = Append(@, stmts[1][2])], Tail(stmts))

\* (variant: a connection in autocommit mode, which keeps what it executed)
CloseKeepsExecuted(d, stmts) == ApplyPending(d, stmts)

\* conn.close() without a commit: sqlite3 rolls the open transaction back
CloseUncommitted(d, stmts) == d

-----------------------------------------------------------------------------
EmptyDb ==
    [users |-> <<>>, user_sessions |-> <<>>,
     physical_health_inputs |-> <<>>, disease_predictions |-> <<>>,
     mental_health_responses |-> <<>>, mental_health_assessments |-> <<>>,
     fitness_profiles |-> <<>>, diet_plans |-> <<>>, exercise_routines |-> <<>>]

UserRow(id, username, email, password) ==
    [id |-> id, username |-> username, email |-> email,
     password_hash |-> generate_password_hash(password)]
SessionRow(user_id, session_token, expires_at) ==
    [user_id |-> user_id, session_token |-> session_token, expires_at |-> expires_at]

\* The state after init_db() on a fresh health.db
Init ==
    /\ db = EmptyDb
    /\ now = 0
    /\ ticks = 0
    /\ next_token = 1
    /\ cookies = {}
    /\ thr = [t \in Threads |-> Idle]
    /\ open_conns = 0
    /\ writer = 0
    /\ nreq = 0
    /\ logged_out = {}
    /\ schema_unique \in BOOLEAN

\* InitAuth and InitApp are states the routes below reach from Init: alice
\* and bob have registered and logged in, and the clock has reached the
\* expiry time of alice's session.
TwoUsers == <<UserRow(1, "alice", "a@x", "pw1"), UserRow(2, "bob", "b@x", "pw1")>>

\* 24 hours after alice logged in
InitAuth ==
    /\ db = [EmptyDb EXCEPT !.users = TwoUsers,
               !.user_sessions = <<SessionRow(1, 1, ExpiresAt(0))>>]
    /\ now = SessionTTL
    /\ ticks = 0
    /\ next_token = 2
    /\ cookies = {[user_id |-> 1, session_token |-> 1]}
    /\ thr = [t \in Threads |-> Idle]
    /\ open_conns = 0
    /\ writer = 0
    /\ nreq = 3
    /\ logged_out = {}
    /\ schema_unique = TRUE

\* 24 hours after alice logged in and 23 hours after bob did
InitApp ==
    /\ db = [EmptyDb EXCEPT !.users = TwoUsers,
               !.user_sessions = <<SessionRow(1, 1, ExpiresAt(0)),
                                   SessionRow(2, 2, ExpiresAt(SecondsPerHour))>>]
    /\ now = SessionTTL
    /\ ticks = 0
    /\ next_token = 3
    /\ cookies = {[user_id |-> 1, session_token |-> 1],
                  [user_id |-> 2, session_token |-> 2]}
    /\ thr = [t \in Threads |-> Idle]
    /\ open_conns = 0
    /\ writer = 0
    /\ nreq = 4
    /\ logged_out = {}
    /\ schema_unique = TRUE

\* The clock advances
Tick ==
    /\ ticks < MaxTicks
    /\ now' = now + 1
    /\ ticks' = ticks + 1
    /\ UNCHANGED <<db, next_token, cookies, thr, open_conns, writer, nreq, logged_out, schema_unique>>

\* Worker threads are interchangeable: a new request goes to the first idle one
Free(t) == thr[t].pc = "idle" /\ \A u \in Threads : u < t => thr[u].pc # "idle"

\* A thread accepts a request for `route`, with the cookie the client sends
Accept(t, route, session, first) ==
    [Idle EXCEPT !.pc = first, !.route = route, !.rid = nreq + 1,
                 !.session = session, !.replay = session \in logged_out]

\* The response is sent; login's response carries the new session cookie
Return(t) ==
    /\ thr[t].pc = "done"
    /\ cookies' = IF thr[t].route = "login" /\ thr[t].session # NoSession
                  THEN cookies \cup {thr[t].session} ELSE cookies
    /\ logged_out' = IF thr[t].route = "logout" /\ thr[t].session # NoSession
                     THEN logged_out \cup {thr[t].session} ELSE logged_out
    /\ thr' = [thr EXCEPT ![t] = Idle]
    /\ UNCHANGED <<db, now, ticks, next_token, open_conns, writer, nreq, schema_unique>>

Set(t, r) == [thr EXCEPT ![t] = r]
Respond(r, code, error, data) ==
    [r EXCEPT !.pc = "done", !.resp = Resp(code, error, data),
              !.events = Append(r.events, "respond")]

-----------------------------------------------------------------------------
(* POST /api/auth/register *)

HasUser(users, username, email) ==
    FirstRow(users, {i \in 1..Len(users) : users[i].username = username
                                           \/ users[i].email = email}).id # 0

StartRegister(t) ==
    /\ Free(t)
    /\ \E username \in Usernames \cup {Missing}, email \in Emails \cup {Missing},
          password \in RegisterPasswords \cup {Missing} :
         LET r == [Accept(t, "register", NoSession, "register_select")
                     EXCEPT !.username = username, !.email = email,
                            !.password = password]
         IN thr' = Set(t, IF username = Missing \/ email = Missing \/ password = Missing
                          THEN Respond(r, 400, "Missing required fields", 0)
                          ELSE r)
    /\ nreq' = nreq + 1
    /\ UNCHANGED <<db, now, ticks, next_token, cookies, open_conns, writer, logged_out, schema_unique>>

\* SELECT id FROM users WHERE username = ? OR email = ?
RegisterSelect(t) ==
    /\ thr[t].pc = "register_select"
    /\ \E failed \in BOOLEAN :
         /\ thr' = Set(t,
              IF failed THEN Respond(thr[t], 500, "exception", 0)
              ELSE IF HasUser(db.users, thr[t].username, thr[t].email)
                   THEN Respond(thr[t], 400, "User already exists", 0)
                   ELSE [thr[t] EXCEPT !.pc = "register_insert"])
         /\ open_conns' = execute_query_conns(open_conns, failed)
    /\ UNCHANGED <<db, now, ticks, next_token, cookies, writer, nreq, logged_out, schema_unique>>

\* INSERT INTO users (username, email, password_hash) VALUES (?, ?, ?)
InsertUser(users, username, email, password) ==
    Append(users, UserRow(Len(users) + 1, username, email, password))

\* the INSERT raises sqlite3.IntegrityError when schema.sql declares
\* users.username and users.email UNIQUE and one of them is taken
IntegrityError(users, username, email) ==
    schema_unique /\ HasUser(users, username, email)

RegisterInsert(t) ==
    /\ thr[t].pc = "register_insert"
    /\ \E error \in BOOLEAN :
         LET integrity == IntegrityError(db.users, thr[t].username, thr[t].email)
             failed == error \/ integrity
         IN /\ ~failed => writer = 0
            /\ db' = IF failed THEN db
                     ELSE [db EXCEPT !.users = InsertUser(@, thr[t].username,
                                                          thr[t].email, thr[t].password)]
            /\ thr' = Set(t, IF integrity
                             THEN Respond(thr[t], 500, "UNIQUE constraint failed", 0)
                             ELSE IF error THEN Respond(thr[t], 500, "exception", 0)
                             ELSE Respond(thr[t], 201, "", 0))
            /\ open_conns' = execute_query_conns(open_conns, failed)
    /\ UNCHANGED <<now, ticks, next_token, cookies, writer, nreq, logged_out, schema_unique>>

-----------------------------------------------------------------------------
(* POST /api/auth/login *)

StartLogin(t) ==
    /\ Free(t)
    /\ \E username \in Usernames, password \in Passwords :
         thr' = Set(t, [Accept(t, "login", NoSession, "login_select")
                          EXCEPT !.username = username, !.password = password])
    /\ nreq' = nreq + 1
    /\ UNCHANGED <<db, now, ticks, next_token, cookies, open_conns, writer, logged_out, schema_unique>>

\* SELECT * FROM users WHERE username = ?
SelectUser(users, username) ==
    FirstRow(users, {i \in 1..Len(users) : users[i].username = username})

CredentialsOk(users, username, password) ==
    /\ SelectUser(users, username).id # 0
    /\ check_password_hash(SelectUser(users, username).password_hash, password)

LoginSelect(t) ==
    /\ thr[t].pc = "login_select"
    /\ \E failed \in BOOLEAN :
         /\ thr' = Set(t,
              IF failed THEN Respond(thr[t], 500, "exception", 0)
              ELSE IF CredentialsOk(db.users, thr[t].username, thr[t].password)
                   THEN [thr[t] EXCEPT !.pc = "login_insert",
                            !.user_id = SelectUser(db.users, thr[t].username).id]
                   ELSE Respond(thr[t], 401, "Invalid credentials", 0))
         /\ open_conns' = execute_query_conns(open_conns, failed)
    /\ UNCHANGED <<db, now, ticks, next_token, cookies, writer, nreq, logged_out, schema_unique>>

\* (variant: a login that replaces the user's earlier sessions)
InsertSessionReplacing(sessions, user_id, session_token, expires_at) ==
    Append(SelectSeq(sessions, LAMBDA x : x.user_id # user_id),
           SessionRow(user_id, session_token, expires_at))

\* INSERT INTO user_sessions (user_id, session_token, expires_at) VALUES (?, ?, ?)
InsertSession(sessions, user_id, session_token, expires_at) ==
    Append(sessions, SessionRow(user_id, session_token, expires_at))

\* session_token = str(uuid.uuid4()); session[...] = ...; then the INSERT
LoginInsert(t) ==
    /\ thr[t].pc = "login_insert"
    /\ \E failed \in BOOLEAN :
         LET session_token == next_token
             r == [thr[t] EXCEPT !.session = [user_id |-> thr[t].user_id,
                                              session_token |-> session_token]]
         IN /\ ~failed => writer = 0
            /\ db' = IF failed THEN db
                     ELSE [db EXCEPT !.user_sessions =
                             InsertSession(@, r.user_id, session_token, ExpiresAt(now))]
            /\ thr' = Set(t, IF failed THEN Respond(r, 500, "exception", 0)
                             ELSE Respond(r, 200, "", session_token))
            /\ open_conns' = execute_query_conns(open_conns, failed)
    /\ next_token' = next_token + 1
    /\ UNCHANGED <<now, ticks, cookies, writer, nreq, logged_out, schema_unique>>

-----------------------------------------------------------------------------
(* POST /api/auth/logout *)

HasSession(s) == s.user_id # 0 /\ s.session_token # 0

StartLogout(t) ==
    /\ Free(t)
    /\ \E session \in cookies \cup {NoSession} :
         LET r == Accept(t, "logout", session, "logout_delete")
         IN thr' = Set(t, IF HasSession(session) THEN r
                          ELSE Respond(r, 200, "", 0))
    /\ nreq' = nreq + 1
    /\ UNCHANGED <<db, now, ticks, next_token, cookies, open_conns, writer, logged_out, schema_unique>>

\* DELETE FROM user_sessions WHERE user_id = ? AND session_token = ?
DeleteSession(sessions, s) ==
    SelectSeq(sessions, LAMBDA x : ~(x.user_id = s.user_id
                                     /\ x.session_token = s.session_token))

\* the DELETE, with any exception swallowed, then session.clear()
LogoutDelete(t) ==
    /\ thr[t].pc = "logout_delete"
    /\ \E failed \in BOOLEAN :
         /\ ~failed => writer = 0
         /\ db' = IF failed THEN db
                  ELSE [db EXCEPT !.user_sessions = DeleteSession(@, thr[t].session)]
         /\ open_conns' = execute_query_conns(open_conns, failed)
    /\ thr' = Set(t, Respond(thr[t], 200, "", 0))
    /\ UNCHANGED <<now, ticks, next_token, cookies, writer, nreq, logged_out, schema_unique>>

-----------------------------------------------------------------------------
(* check_auth *)

\* SELECT * FROM user_sessions WHERE user_id = ? AND session_token = ?
SessionRows(sessions, s) ==
    {i \in 1..Len(sessions) : sessions[i].user_id = s.user_id
                              /\ sessions[i].session_token = s.session_token}
SelectSession(sessions, s) == FirstRow(sessions, SessionRows(sessions, s))
HasRow(sessions, s) == SessionRows(sessions, s) # {}

\* datetime.utcnow() > datetime.fromisoformat(expires_at); a value that does
\* not parse is accepted
Expired(expires_at, t0) == IsIso(expires_at) /\ t0 > fromisoformat(expires_at)

\* (variant: the handler forgets to return after a failed check)
UnauthenticatedFallsThrough(r) ==
    [r EXCEPT !.auth = "false", !.pc = "handler", !.user_id = r.session.user_id,
              !.events = Append(r.events, "auth")]

\* if not check_auth(): return jsonify({'error': 'Not authenticated'}), 401
Unauthenticated(r) ==
    Respond([r EXCEPT !.auth = "false", !.events = Append(r.events, "auth")],
            401, "Not authenticated", 0)
Authenticated(r) ==
    [r EXCEPT !.auth = "true", !.pc = "handler", !.user_id = r.session.user_id,
              !.events = Append(r.events, "auth")]

\* a protected route is requested: the handler's first statement is check_auth()
StartProtected(t, route) ==
    /\ Free(t)
    /\ \E session \in cookies \cup {NoSession} :
         thr' = Set(t, Accept(t, route, session, "check_auth"))
    /\ nreq' = nreq + 1
    /\ UNCHANGED <<db, now, ticks, next_token, cookies, open_conns, writer, logged_out, schema_unique>>

CheckAuthSelect(t) ==
    /\ thr[t].pc = "check_auth"
    /\ IF ~HasSession(thr[t].session)
       THEN /\ thr' = Set(t, Unauthenticated(thr[t]))
            /\ UNCHANGED open_conns
       ELSE \E failed \in BOOLEAN :
            /\ thr' = Set(t,
                 IF failed \/ ~HasRow(db.user_sessions, thr[t].session)
                 THEN Unauthenticated(thr[t])
                 ELSE IF Expired(SelectSession(db.user_sessions, thr[t].session).expires_at,
                                 now)
                      THEN [thr[t] EXCEPT !.pc = "check_auth_delete"]
                      ELSE Authenticated(thr[t]))
            /\ open_conns' = execute_query_conns(open_conns, failed)
    /\ UNCHANGED <<db, now, ticks, next_token, cookies, writer, nreq, logged_out, schema_unique>>

\* the expired session's DELETE; its exception is caught by the inner
\* `except Exception: pass`, and control falls through to `return True`
AfterExpiredDelete(r, failed) ==
    IF failed THEN Authenticated(r) ELSE Unauthenticated(r)

CheckAuthDelete(t) ==
    /\ thr[t].pc = "check_auth_delete"
    /\ \E failed \in BOOLEAN :
         /\ ~failed => writer = 0
         /\ db' = IF failed THEN db
                  ELSE [db EXCEPT !.user_sessions = DeleteSession(@, thr[t].session)]
         /\ thr' = Set(t, AfterExpiredDelete(thr[t], failed))
         /\ open_conns' = execute_query_conns(open_conns, failed)
    /\ UNCHANGED <<now, ticks, next_token, cookies, writer, nreq, logged_out, schema_unique>>

-----------------------------------------------------------------------------
(* GET /api/mental-health/questions *)

Service(r, name) == [r EXCEPT !.events = Append(r.events, name)]

GetQuestions(t) ==
    /\ thr[t].pc = "handler" /\ thr[t].route = "questions"
    /\ \E raised \in BOOLEAN :
         thr' = Set(t, IF raised
                       THEN Respond(Service(thr[t], "service"), 500, "exception", 0)
                       ELSE Respond(Service(thr[t], "service"), 200, "", 0))
    /\ UNCHANGED <<db, now, ticks, next_token, cookies, open_conns, writer, nreq, logged_out, schema_unique>>

-----------------------------------------------------------------------------
(* A handler's transaction on its own connection *)

ServerError(r) == Respond(r, 500, "exception", 0)

\* conn = get_db_connection(); cur.execute(...) for each statement.  k = 0:
\* the connection cannot be opened; 1 <= k <= Len(stmts): the k-th execute
\* raises and the finally clause closes the connection; k = Len(stmts) + 1:
\* every statement is executed and the transaction awaits its commit
BeginTxn(t, r, stmts, next) ==
    \E k \in 0..(Len(stmts) + 1) :
       /\ k > 1 => writer = 0
       /\ IF k = 0
          THEN /\ thr' = Set(t, ServerError(r))
               /\ UNCHANGED <<db, open_conns, writer>>
          ELSE IF k <= Len(stmts)
          THEN /\ thr' = Set(t, ServerError(r))
               /\ db' = CloseUncommitted(db, SubSeq(stmts, 1, k - 1))
               /\ open_conns' = handler_finally(open_conns + 1)
               /\ UNCHANGED writer
          ELSE /\ thr' = Set(t, [r EXCEPT !.pc = next, !.conn = TRUE, !.pending = stmts])
               /\ open_conns' = open_conns + 1
               /\ writer' = t
               /\ UNCHANGED db

\* conn.commit(), then finally: conn.close(); after a commit the handler goes
\* on to `next`, or returns `data` with 200 when next is "done"
CommitTxn(t, event, next, data) ==
    \E failed \in BOOLEAN :
       LET r == [thr[t] EXCEPT !.conn = FALSE, !.pending = <<>>]
           ok == [r EXCEPT !.events = Append(r.events, event)]
       IN /\ db' = IF failed THEN CloseUncommitted(db, thr[t].pending)
                   ELSE ApplyPending(db, thr[t].pending)
          /\ thr' = Set(t, IF failed THEN ServerError(r)
                           ELSE IF next = "done" THEN Respond(ok, 200, "", data)
                           ELSE [ok EXCEPT !.pc = next])
          /\ open_conns' = handler_finally(open_conns)
          /\ writer' = 0

Common == <<now, ticks, next_token, cookies, nreq, logged_out, schema_unique>>

-----------------------------------------------------------------------------
(* POST /api/health/predict-disease *)

\* (variant: the id is read before the INSERT has run)
LastRowIdStale(tbl) == Len(tbl)

\* cur.lastrowid of an INSERT into tbl
LastRowId(tbl) == Len(tbl) + 1

\* INSERT INTO physical_health_inputs (user_id, ...)
PredictBegin(t) ==
    /\ thr[t].pc = "handler" /\ thr[t].route = "predict"
    /\ LET id == LastRowId(db.physical_health_inputs)
       IN BeginTxn(t, [thr[t] EXCEPT !.health_input_id = id],
                   <<<<"physical_health_inputs",
                       [id |-> Len(db.physical_health_inputs) + 1,
                        user_id |-> thr[t].user_id, req |-> thr[t].rid]>>>>,
                   "predict_commit")
    /\ UNCHANGED Common

PredictCommit(t) ==
    /\ thr[t].pc = "predict_commit"
    /\ CommitTxn(t, "commit_input", "predict_call", 0)
    /\ UNCHANGED Common

\* disease_predictions.created_at is not set by the INSERT: the column's
\* default, the clock reading when the statement runs
CURRENT_TIMESTAMP == now

\* the predictor raises, returns {'error': ...}, or returns a result (the
\* answer to this request)
PredictorOutcomes == {"raise", "error", "ok"}
PredictionResult(r) == r.rid

\* disease_predictor.predict_disease_with_recommendations(symptoms_list), then
\* INSERT INTO disease_predictions (user_id, health_input_id, ..., recommendations)
PredictCall(t) ==
    /\ thr[t].pc = "predict_call"
    /\ \E out \in PredictorOutcomes :
         LET r == [Service(thr[t], "predict") EXCEPT !.outcome = out]
         IN IF out = "raise"
            THEN thr' = Set(t, ServerError(r)) /\ UNCHANGED <<db, open_conns, writer>>
            ELSE IF out = "error"
            THEN /\ thr' = Set(t, Respond(r, 400, "prediction error", 0))
                 /\ UNCHANGED <<db, open_conns, writer>>
            ELSE BeginTxn(t, r,
                     <<<<"disease_predictions",
                         [id |-> Len(db.disease_predictions) + 1,
                          user_id |-> r.user_id,
                          health_input_id |-> r.health_input_id,
                          recommendations |-> json_dumps(PredictionResult(r)),
                          created_at |-> CURRENT_TIMESTAMP, req |-> r.rid]>>>>,
                     "predict_commit2")
    /\ UNCHANGED Common

PredictCommit2(t) ==
    /\ thr[t].pc = "predict_commit2"
    /\ CommitTxn(t, "commit_prediction", "done", PredictionResult(thr[t]))
    /\ UNCHANGED Common

-----------------------------------------------------------------------------
(* GET /api/health/last-prediction *)

PredictionsOf(tbl, user_id) == {i \in 1..Len(tbl) : tbl[i].user_id = user_id}

\* ORDER BY created_at DESC LIMIT 1: a row of the user with the greatest
\* created_at; SQLite leaves the order of rows with equal keys unspecified
Latest(tbl, user_id) ==
    {i \in PredictionsOf(tbl, user_id) :
       \A j \in PredictionsOf(tbl, user_id) : tbl[j].created_at <= tbl[i].created_at}

GetLastPrediction(t) ==
    /\ thr[t].pc = "handler" /\ thr[t].route = "last"
    /\ \E failed \in BOOLEAN :
         /\ open_conns' = execute_query_conns(open_conns, failed)
         /\ IF failed THEN thr' = Set(t, ServerError(thr[t]))
            ELSE IF PredictionsOf(db.disease_predictions, thr[t].user_id) = {}
            THEN thr' = Set(t, Respond(thr[t], 404, "No previous predictions", 0))
            ELSE \E i \in Latest(db.disease_predictions, thr[t].user_id) :
                   thr' = Set(t, Respond(thr[t], 200, "",
                              json_loads(db.disease_predictions[i].recommendations)))
    /\ UNCHANGED <<db, writer>>
    /\ UNCHANGED Common

-----------------------------------------------------------------------------
(* POST /api/mental-health/submit-quiz *)

ResponseRows(r, n) ==
    [k \in 1..n |-> <<"mental_health_responses",
                      [user_id |-> r.user_id, question_id |-> k, req |-> r.rid]>>]
AssessmentRow(r) ==
    <<"mental_health_assessments", [user_id |-> r.user_id, n |-> r.n, req |-> r.rid]>>

\* calculate_mental_health_score and get_mental_health_recommendations (outside
\* the try), then the INSERTs of the responses and of the assessment
QuizBegin(t) ==
    /\ thr[t].pc = "handler" /\ thr[t].route = "quiz"
    /\ \E n \in 0..MaxResponses, raised \in BOOLEAN :
         LET r == Service([thr[t] EXCEPT !.n = n], "assess")
         IN IF raised
            THEN thr' = Set(t, ServerError(r)) /\ UNCHANGED <<db, open_conns, writer>>
            ELSE BeginTxn(t, r, Append(ResponseRows(r, n), AssessmentRow(r)),
                          "quiz_commit")
    /\ UNCHANGED Common

QuizCommit(t) ==
    /\ thr[t].pc = "quiz_commit"
    /\ CommitTxn(t, "commit_quiz", "done", thr[t].rid)
    /\ UNCHANGED Common

-----------------------------------------------------------------------------
(* POST /api/mental-health/analyze-text *)

AnalyzeText(t) ==
    /\ thr[t].pc = "handler" /\ thr[t].route = "analyze"
    /\ \E raised \in BOOLEAN :
         thr' = Set(t, IF raised THEN ServerError(Service(thr[t], "service"))
                       ELSE Respond(Service(thr[t], "service"), 200, "", 0))
    /\ UNCHANGED <<db, open_conns, writer>>
    /\ UNCHANGED Common

-----------------------------------------------------------------------------
(* POST /api/fitness/profile *)

ProfileBegin(t) ==
    /\ thr[t].pc = "handler" /\ thr[t].route = "profile"
    /\ BeginTxn(t, thr[t],
                <<<<"fitness_profiles",
                    [id |-> Len(db.fitness_profiles) + 1, user_id |-> thr[t].user_id,
                     req |-> thr[t].rid]>>>>,
                "profile_commit")
    /\ UNCHANGED Common

ProfileCommit(t) ==
    /\ thr[t].pc = "profile_commit"
    /\ CommitTxn(t, "commit_profile", "done", LastRowId(db.fitness_profiles))
    /\ UNCHANGED Common

-----------------------------------------------------------------------------
(* POST /api/fitness/recommendations *)

FitnessBegin(t) ==
    /\ thr[t].pc = "handler" /\ thr[t].route = "fitness"
    /\ \E raised \in BOOLEAN :
         LET r == Service(thr[t], "recommend")
         IN IF raised
            THEN thr' = Set(t, ServerError(r)) /\ UNCHANGED <<db, open_conns, writer>>
            ELSE BeginTxn(t, r,
                     << <<"diet_plans", [user_id |-> r.user_id, req |-> r.rid]>>,
                        <<"exercise_routines", [user_id |-> r.user_id, req |-> r.rid]>> >>,
                     "fitness_commit")
    /\ UNCHANGED Common

FitnessCommit(t) ==
    /\ thr[t].pc = "fitness_commit"
    /\ CommitTxn(t, "commit_fitness", "done", thr[t].rid)
    /\ UNCHANGED Common

-----------------------------------------------------------------------------
Started(first) == nreq - first

NextRegister ==
    \E t \in Threads :
       \/ Started(0) < MaxRegisterRequests /\ StartRegister(t)
       \/ RegisterSelect(t)
       \/ RegisterInsert(t)
       \/ Return(t)

SpecRegister == Init /\ [][NextRegister]_vars

NextAuth ==
    \/ Tick
    \/ \E t \in Threads :
         \/ Started(3) < MaxAuthRequests /\ StartLogin(t)
         \/ Started(3) < MaxAuthRequests /\ StartLogout(t)
         \/ Started(3) < MaxAuthRequests /\ StartProtected(t, "questions")
         \/ LoginSelect(t)
         \/ LoginInsert(t)
         \/ LogoutDelete(t)
         \/ CheckAuthSelect(t)
         \/ CheckAuthDelete(t)
         \/ GetQuestions(t)
         \/ Return(t)

SpecAuth == InitAuth /\ [][NextAuth]_vars

ProtectedRoutes ==
    {"predict", "questions", "quiz", "analyze", "last", "profile", "fitness"}

NextApp ==
    \/ Tick
    \/ \E t \in Threads :
         \/ Started(4) < MaxAppRequests
            /\ \E route \in ProtectedRoutes : StartProtected(t, route)
         \/ CheckAuthSelect(t)
         \/ CheckAuthDelete(t)
         \/ PredictBegin(t)
         \/ PredictCommit(t)
         \/ PredictCall(t)
         \/ PredictCommit2(t)
         \/ GetLastPrediction(t)
         \/ GetQuestions(t)
         \/ QuizBegin(t)
         \/ QuizCommit(t)
         \/ AnalyzeText(t)
         \/ ProfileBegin(t)
         \/ ProfileCommit(t)
         \/ FitnessBegin(t)
         \/ FitnessCommit(t)
         \/ Return(t)

SpecApp == InitApp /\ [][NextApp]_vars

PredictSteps(t) ==
    \/ CheckAuthSelect(t)
    \/ CheckAuthDelete(t)
    \/ PredictBegin(t)
    \/ PredictCommit(t)
    \/ PredictCall(t)
    \/ PredictCommit2(t)
    \/ Return(t)

NextPredict ==
    \/ Tick
    \/ \E t \in Threads :
         \/ Started(4) < MaxPredictRequests /\ StartProtected(t, "predict")
         \/ PredictSteps(t)

SpecPredict == InitApp /\ [][NextPredict]_vars

NextLast ==
    \/ Tick
    \/ \E t \in Threads :
         \/ Started(4) < MaxLastRequests /\ StartProtected(t, "predict")
         \/ Started(4) < MaxLastRequests /\ StartProtected(t, "last")
         \/ PredictSteps(t)
         \/ GetLastPrediction(t)

SpecLast == InitApp /\ [][NextLast]_vars

NextQuiz ==
    \/ Tick
    \/ \E t \in Threads :
         \/ Started(4) < MaxQuizRequests /\ StartProtected(t, "quiz")
         \/ CheckAuthSelect(t)
         \/ CheckAuthDelete(t)
         \/ QuizBegin(t)
         \/ QuizCommit(t)
         \/ Return(t)

SpecQuiz == InitApp /\ [][NextQuiz]_vars

-----------------------------------------------------------------------------
(* Properties of the session and registration routes *)

SessionValid(sessions, s, t0) ==
    /\ HasSession(s)
    /\ HasRow(sessions, s)
    /\ IsIso(SelectSession(sessions, s).expires_at)
    /\ ~(t0 > fromisoformat(SelectSession(sessions, s).expires_at))

\* C2: check_auth returns True only if the request's session holds a user_id
\* and a session_token, a user_sessions row with that pair exists, and the
\* row is not expired; in every other case (database errors included) it
\* returns False.
C2_TrueOnlyIfValid ==
    [][\A t \in Threads :
         (thr[t].auth = "none" /\ thr'[t].auth = "true")
         => SessionValid(db.user_sessions, thr[t].session, now)]_vars

InCheckAuth(t) == thr[t].pc \in {"check_auth", "check_auth_delete"}

\* C5: when check_auth finds the session expired it deletes exactly the
\* matching user_sessions row and returns False; when it accepts the session
\* or rejects it for another reason, user_sessions is unchanged.
C5_ExpiredDeletesAndRejects ==
    [][\A t \in Threads :
         (InCheckAuth(t) /\ thr'[t] # thr[t])
         => IF thr[t].pc = "check_auth_delete"
            THEN /\ thr'[t].auth = "false"
                 /\ db'.user_sessions = DeleteSession(db.user_sessions, thr[t].session)
            ELSE db'.user_sessions = db.user_sessions]_vars

\* C6: after a logout made with a session has returned, no later request
\* presenting that session passes check_auth.
C6_NoReplayAfterLogout ==
    \A t \in Threads : thr[t].replay => thr[t].auth # "true"

\* C6 (first half): after a logout has returned, no row with its pair remains.
C6_RowGoneAfterLogout ==
    \A s \in logged_out : ~HasRow(db.user_sessions, s)

NoDuplicateUsers ==
    \A i, j \in 1..Len(db.users) :
       i # j => /\ db.users[i].username # db.users[j].username
                /\ db.users[i].email # db.users[j].email

\* C7: after any interleaving of register requests no two users rows share a
\* username or an email, and a request whose username or email is taken ends
\* with 400 'User already exists' (never with the constraint's 500).
C7_UniqueUsers ==
    /\ NoDuplicateUsers
    /\ \A t \in Threads :
         (thr[t].route = "register" /\ thr[t].pc = "done")
         => thr[t].resp.error # "UNIQUE constraint failed"

LoginStep(t) == thr[t].pc \in {"login_select", "login_insert"} /\ thr'[t] # thr[t]
TokenUnused(tok) ==
    /\ \A i \in 1..Len(db.user_sessions) : db.user_sessions[i].session_token # tok
    /\ \A c \in cookies : c.session_token # tok

-----------------------------------------------------------------------------
(* Properties of the protected routes *)

RequestTables ==
    {"physical_health_inputs", "disease_predictions", "mental_health_responses",
     "mental_health_assessments", "fitness_profiles", "diet_plans",
     "exercise_routines"}
RowsOf(tbl, rid) == {i \in 1..Len(tbl) : tbl[i].req = rid}

\* C1: in every protected route the auth check runs first, and when
\* check_auth returns False the request ends with 401 'Not authenticated',
\* having inserted no row into any table and called no prediction service.
C1_RejectedDoesNothing ==
    /\ [](\A t \in Threads :
            /\ (thr[t].route \in ProtectedRoutes /\ thr[t].events # <<>>)
               => thr[t].events[1] = "auth"
            /\ thr[t].auth = "false"
               => /\ thr[t].pc = "done"
                  /\ thr[t].resp = Resp(401, "Not authenticated", 0)
                  /\ thr[t].events = <<"auth", "respond">>
                  /\ ~thr[t].conn
                  /\ \A tb \in RequestTables : RowsOf(db[tb], thr[t].rid) = {})
    /\ [][\A t \in Threads :
            (thr'[t].auth = "false" /\ thr'[t] # thr[t])
            => \A tb \in DOMAIN db : Len(db'[tb]) <= Len(db[tb])]_vars

\* a request with an expired session and one with no session were rejected
C1_Witness ==
    \E t \in Threads :
       /\ thr[t].route \in ProtectedRoutes \ {"questions"}
       /\ thr[t].auth = "false" /\ thr[t].pc = "done"
       /\ HasSession(thr[t].session)
       /\ Len(db.user_sessions) = 1

PredictOrder == <<"auth", "commit_input", "predict", "commit_prediction">>
IsPrefix(a, b) == Len(a) <= Len(b) /\ a = SubSeq(b, 1, Len(a))
BeforeRespond(ev) ==
    IF ev # <<>> /\ ev[Len(ev)] = "respond" THEN SubSeq(ev, 1, Len(ev) - 1) ELSE ev

\* C3: predict_disease runs auth check, commit of the physical_health_inputs
\* row, predictor call, commit of the disease_predictions row, response, in
\* that order; so every disease_predictions row names a
\* physical_health_inputs row committed by the same request for the same
\* user, and is written only when the predictor returned no 'error'.
C3_PredictOrder ==
    /\ \A t \in Threads :
         thr[t].route = "predict"
         => /\ IsPrefix(BeforeRespond(thr[t].events), PredictOrder)
            /\ thr[t].resp.code = 200
               => thr[t].events = Append(PredictOrder, "respond")
            /\ RowsOf(db.disease_predictions, thr[t].rid) # {}
               => thr[t].outcome = "ok"
            /\ thr[t].pc \in {"check_auth", "check_auth_delete", "handler", "predict_commit"}
               => RowsOf(db.physical_health_inputs, thr[t].rid) = {}
    /\ \A i \in 1..Len(db.disease_predictions) :
         \E j \in 1..Len(db.physical_health_inputs) :
            /\ db.physical_health_inputs[j].id = db.disease_predictions[i].health_input_id
            /\ db.physical_health_inputs[j].user_id = db.disease_predictions[i].user_id
            /\ db.physical_health_inputs[j].req = db.disease_predictions[i].req

\* a prediction was stored for the second of two committed inputs
C3_Witness ==
    /\ Len(db.physical_health_inputs) = 2
    /\ \E i \in 1..Len(db.disease_predictions) :
          db.disease_predictions[i].health_input_id = 2

\* C4: every connection opened by execute_query or by a handler is closed by
\* the time the call or handler finishes, on every path; when all requests
\* have completed no connection is open.
C4_ConnectionsClosed ==
    /\ open_conns = Cardinality({t \in Threads : thr[t].conn})
    /\ \A t \in Threads : thr[t].pc \in {"idle", "done"} => ~thr[t].conn
    /\ (\A t \in Threads : thr[t].pc = "idle") => (open_conns = 0 /\ writer = 0)

\* a handler ended with 500 after its first transaction had committed
C4_Witness ==
    \E t \in Threads :
       /\ thr[t].pc = "done" /\ thr[t].route = "predict" /\ thr[t].resp.code = 500
       /\ thr[t].outcome = "ok"
       /\ open_conns = 0

Responses(rid) == RowsOf(db.mental_health_responses, rid)
Assessments(rid) == RowsOf(db.mental_health_assessments, rid)

\* C8: submit_mental_health_quiz persists atomically: either all N response
\* rows and exactly one assessment row of the request are committed and the
\* assessment is returned, or none is and the response is a 500 error.
C8_QuizAtomic ==
    /\ \A rid \in 1..nreq :
         \/ Assessments(rid) = {} /\ Responses(rid) = {}
         \/ /\ Cardinality(Assessments(rid)) = 1
            /\ \A a \in Assessments(rid) :
                 Cardinality(Responses(rid)) = db.mental_health_assessments[a].n
    /\ \A t \in Threads :
         (thr[t].route = "quiz" /\ thr[t].pc = "done" /\ thr[t].auth = "true")
         => /\ thr[t].resp.code \in {200, 500}
            /\ thr[t].resp.code = 200
               => /\ Cardinality(Assessments(thr[t].rid)) = 1
                  /\ Cardinality(Responses(thr[t].rid)) = thr[t].n
            /\ thr[t].resp.code = 500
               => Assessments(thr[t].rid) = {} /\ Responses(thr[t].rid) = {}

\* a quiz with the most responses was saved, and one failed while saving
C8_Witness ==
    /\ \E t \in Threads :
          /\ thr[t].route = "quiz" /\ thr[t].pc = "done" /\ thr[t].resp.code = 500
          /\ thr[t].n = MaxResponses
    /\ \E a \in 1..Len(db.mental_health_assessments) :
          db.mental_health_assessments[a].n = MaxResponses

\* the user's most recently inserted prediction
MostRecent(tbl, user_id) ==
    CHOOSE i \in PredictionsOf(tbl, user_id) : \A j \in PredictionsOf(tbl, user_id) : j <= i

\* C10: get_last_prediction returns the result stored by the user's most
\* recent successful predict_disease request, never another user's and never
\* an older one, and 404 'No previous predictions' exactly when the user has
\* no disease_predictions row.
C10_ReturnsMostRecent ==
    [][\A t \in Threads :
         (thr[t].pc = "handler" /\ thr[t].route = "last" /\ thr'[t].pc = "done"
          /\ thr'[t].resp.code # 500)
         => IF PredictionsOf(db.disease_predictions, thr[t].user_id) = {}
            THEN thr'[t].resp = Resp(404, "No previous predictions", 0)
            ELSE thr'[t].resp =
                   Resp(200, "", json_loads(db.disease_predictions[
                       MostRecent(db.disease_predictions, thr[t].user_id)].recommendations))]_vars

=============================================================================
